---- MODULE Spec2Model ----
(***************************************************************************)
(* Model of the llm_eval_lab evaluation core:                              *)
(*   - UnifiedEvaluator (evaluators/unified_evaluator.py): configuration   *)
(*     driven strategy dispatch and weighted aggregation;                  *)
(*   - EvaluationPipeline (core/evaluation_pipeline.py): the per-turn      *)
(*     evaluation session;                                                 *)
(*   - JSONDataLoader.get_ai_responses_with_context (loaders/json_loader). *)
(* Python floats are modelled by exact rationals [n, d] in lowest terms.   *)
(***************************************************************************)
EXTENDS Integers, Sequences, FiniteSets, TLC

VARIABLES
    config,                  \* UnifiedEvaluator.config (MetricsConfig)
    lettucedetect_evaluator, \* UnifiedEvaluator.lettucedetect_evaluator is not None
    calls,                   \* strategy invocations of the current/last evaluation(s)
    last,                    \* outcome of the last evaluate_response call
    conversation,            \* evaluate_conversation: local `conversation`
    target_turn,             \* evaluate_conversation: parameter `target_turn`
    ai_responses,            \* evaluate_conversation: local `ai_responses`
    idx,                     \* position of the for loop over ai_responses
    results,                 \* EvaluationPipeline.results
    pc,                      \* position of the session
    invocations,             \* number of evaluate_conversation invocations so far
    input,                   \* what the environment hands to the call under check
    output                   \* what that call returned or raised

vars == <<config, lettucedetect_evaluator, calls, last, conversation,
          target_turn, ai_responses, idx, results, pc, invocations, input, output>>

callVars == <<input, output>>
evalVars == <<config, lettucedetect_evaluator>>
sessionVars == <<conversation, target_turn, ai_responses, idx, results, pc, invocations>>

----------------------------------------------------------------------------
(* Bounds *)

MaxTurns == 4          \* longest conversation of the session specification
MaxPairingTurns == 5   \* longest conversation of the pairing specification
MaxInvocations == 2    \* evaluate_conversation invocations per pipeline

----------------------------------------------------------------------------
(* Exact rational arithmetic standing for Python float arithmetic *)

Abs(x) == IF x < 0 THEN -x ELSE x

RECURSIVE GCD(_, _)
GCD(a, b) == IF b = 0 THEN a ELSE GCD(b, a % b)

Rat(n, d) ==
    LET g == GCD(Abs(n), Abs(d))
        s == IF d < 0 THEN -1 ELSE 1
    IN  [n |-> (s * n) \div g, d |-> (s * d) \div g]

RatAdd(x, y) == Rat(x.n * y.d + y.n * x.d, x.d * y.d)
RatMul(x, y) == Rat(x.n * y.n, x.d * y.d)
RatDiv(x, y) == Rat(x.n * y.d, x.d * y.n)
RatLeq(x, y) == x.n * y.d <= y.n * x.d
RatLt(x, y) == x.n * y.d < y.n * x.d
Zero == Rat(0, 1)
Five == Rat(5, 1)
FromInt(k) == Rat(k, 1)

----------------------------------------------------------------------------
(* Data model *)

None == [tag |-> "None"]

RelevanceResult(score) == [tag |-> "RelevanceResult", score |-> score]
HallucinationResult(score) == [tag |-> "HallucinationResult", score |-> score]
ROUGEResult(average_score) == [tag |-> "ROUGEResult", average_score |-> average_score]

EvaluationResult(turn_id, user_query, ai_response, relevance, hallucination, rouge, overall_score) ==
    [turn_id |-> turn_id, user_query |-> user_query, ai_response |-> ai_response,
     relevance |-> relevance, hallucination |-> hallucination, rouge |-> rouge,
     overall_score |-> overall_score, evaluation_note |-> None]

\* Python truthiness of an Optional[dataclass]: None is false, an instance is true
Truthy(x) == x # None

----------------------------------------------------------------------------
(* MetricsConfig (parsers/config_loader.py) *)

HallucinationMethods == {"lettucedetect", "llm_judge", "bogus"}
RougeMethods == {"rouge", "llm_judge", "bogus"}
\* weights are unconstrained floats in the source; one metric may carry a negative one
RelevanceWeights == {Rat(0, 1), Rat(3, 10)}
CompletenessWeights == {Rat(0, 1), Rat(1, 10)}
HallucinationWeights == {Rat(-1, 10), Rat(0, 1), Rat(3, 10)}
RougeWeights == {Rat(0, 1), Rat(1, 10)}

MetricsConfig ==
    [response_relevance : BOOLEAN, response_completeness : BOOLEAN,
     hallucination : BOOLEAN, rouge : BOOLEAN,
     hallucination_method : HallucinationMethods, rouge_method : RougeMethods,
     response_relevance_weight : RelevanceWeights,
     response_completeness_weight : CompletenessWeights,
     hallucination_weight : HallucinationWeights, rouge_weight : RougeWeights]

DefaultMetricsConfig ==
    [response_relevance |-> TRUE, response_completeness |-> TRUE,
     hallucination |-> TRUE, rouge |-> TRUE,
     hallucination_method |-> "llm_judge", rouge_method |-> "rouge",
     response_relevance_weight |-> Rat(3, 10),
     response_completeness_weight |-> Rat(3, 10),
     hallucination_weight |-> Rat(3, 10), rouge_weight |-> Rat(1, 10)]

\* mutant of InitLettuceDetect: only an injected transformer evaluator is held
InitLettuceDetectInjectedOnly(cfg, injected) == injected

\* UnifiedEvaluator.__init__: the transformer evaluator held after construction
InitLettuceDetect(cfg, injected) ==
    IF cfg.hallucination /\ cfg.hallucination_method = "lettucedetect" /\ ~injected
    THEN TRUE
    ELSE injected

----------------------------------------------------------------------------
(* Strategy outcomes: what a delegated strategy call can produce *)

Raised == [tag |-> "Raised"]

Scores == 1..5
RougeValues == {Rat(0, 1), Rat(1, 2), Rat(1, 1)}

\* LLMEvaluator.evaluate_relevance: a RelevanceResult, or the judge call / parse raises
RelevanceOutcomes(S) == {Raised} \cup {RelevanceResult(s) : s \in S}
\* LLMEvaluator.evaluate_hallucination: a HallucinationResult, or it raises
JudgeHallucinationOutcomes(S) == {Raised} \cup {HallucinationResult(s) : s \in S}
\* LettuceDetectEvaluator.evaluate: always a HallucinationResult (failures absorbed)
LettuceDetectOutcomes(S) == {HallucinationResult(s) : s \in S}
\* ROUGEEvaluator.evaluate: a ROUGEResult, or the scorer import raises
NgramOutcomes(R) == {Raised} \cup {ROUGEResult(a) : a \in R}
\* judge call + parse inside _evaluate_rouge_with_llm: a ROUGEResult, or it raises
JudgeRougeOutcomes(R) == {Raised} \cup {ROUGEResult(a) : a \in R}

----------------------------------------------------------------------------
(* UnifiedEvaluator.evaluate_response *)

\* mutants of RunsRelevance: the relevance strategy runs unconditionally / ignores completeness
RunsRelevanceAlways(cfg) == TRUE
RunsRelevanceOnly(cfg) == cfg.response_relevance

RunsRelevance(cfg) == cfg.response_relevance \/ cfg.response_completeness

\* lines 62-66
RelevanceStage(cfg, o) ==
    IF RunsRelevance(cfg)
    THEN [calls |-> <<"LLMEvaluator.evaluate_relevance">>, value |-> o.relevance]
    ELSE [calls |-> <<>>, value |-> None]

\* mutant of HallucinationStage: an unrecognized method name is an error
HallucinationStageStrict(cfg, ld, o) ==
    IF cfg.hallucination
    THEN IF cfg.hallucination_method = "lettucedetect"
         THEN IF ld
              THEN [calls |-> <<"LettuceDetectEvaluator.evaluate">>, value |-> o.lettucedetect]
              ELSE [calls |-> <<>>, value |-> Raised]
         ELSE IF cfg.hallucination_method = "llm_judge"
         THEN [calls |-> <<"LLMEvaluator.evaluate_hallucination">>, value |-> o.hallucination]
         ELSE [calls |-> <<>>, value |-> Raised]
    ELSE [calls |-> <<>>, value |-> None]

\* lines 68-84; calling .evaluate on an absent transformer evaluator raises
HallucinationStage(cfg, ld, o) ==
    IF cfg.hallucination
    THEN IF cfg.hallucination_method = "lettucedetect"
         THEN IF ld
              THEN [calls |-> <<"LettuceDetectEvaluator.evaluate">>, value |-> o.lettucedetect]
              ELSE [calls |-> <<>>, value |-> Raised]
         ELSE IF cfg.hallucination_method = "llm_judge"
         THEN [calls |-> <<"LLMEvaluator.evaluate_hallucination">>, value |-> o.hallucination]
         ELSE [calls |-> <<"LLMEvaluator.evaluate_hallucination">>, value |-> o.hallucination]
    ELSE [calls |-> <<>>, value |-> None]

\* mutant of evaluate_rouge_with_llm: a judge failure leaves the strategy
evaluate_rouge_with_llm_no_fallback(o) ==
    IF o.judge_rouge # Raised
    THEN [calls |-> <<"LLMClient.call">>, value |-> o.judge_rouge]
    ELSE [calls |-> <<"LLMClient.call">>, value |-> Raised]

\* UnifiedEvaluator._evaluate_rouge_with_llm: judge result, n-gram fallback on any error
evaluate_rouge_with_llm(o) ==
    IF o.judge_rouge # Raised
    THEN [calls |-> <<"LLMClient.call">>, value |-> o.judge_rouge]
    ELSE [calls |-> <<"LLMClient.call", "ROUGEEvaluator.evaluate">>, value |-> o.ngram]

\* lines 86-108
RougeStage(cfg, o) ==
    IF cfg.rouge
    THEN IF cfg.rouge_method = "rouge"
         THEN [calls |-> <<"ROUGEEvaluator.evaluate">>, value |-> o.ngram]
         ELSE IF cfg.rouge_method = "llm_judge"
         THEN LET r == evaluate_rouge_with_llm(o)
              IN  [calls |-> <<"LLMEvaluator._format_context",
                               "UnifiedEvaluator._evaluate_rouge_with_llm">> \o r.calls,
                   value |-> r.value]
         ELSE [calls |-> <<"ROUGEEvaluator.evaluate">>, value |-> o.ngram]
    ELSE [calls |-> <<>>, value |-> None]

\* lines 110-130: the running sums [overall_score, total_weight]
AddTerm(acc, cond, term, weight) ==
    IF cond
    THEN [overall_score |-> RatAdd(acc.overall_score, RatMul(term, weight)),
          total_weight |-> RatAdd(acc.total_weight, weight)]
    ELSE acc

\* mutant of WeightedSums: the relevance score is not brought to 0-1 before weighting
WeightedSumsUnscaled(cfg, relevance, hallucination, rouge) ==
    LET a0 == [overall_score |-> Zero, total_weight |-> Zero]
        a1 == AddTerm(a0, Truthy(relevance) /\ cfg.response_relevance,
                      IF Truthy(relevance) THEN FromInt(relevance.score) ELSE Zero,
                      cfg.response_relevance_weight)
        a2 == AddTerm(a1, Truthy(relevance) /\ cfg.response_completeness,
                      IF Truthy(relevance) THEN FromInt(relevance.score) ELSE Zero,
                      cfg.response_completeness_weight)
        a3 == AddTerm(a2, Truthy(hallucination),
                      IF Truthy(hallucination) THEN RatDiv(FromInt(hallucination.score), Five) ELSE Zero,
                      cfg.hallucination_weight)
        a4 == AddTerm(a3, Truthy(rouge),
                      IF Truthy(rouge) THEN rouge.average_score ELSE Zero,
                      cfg.rouge_weight)
    IN  a4

\* mutant of WeightedSums: the ROUGE average is divided by 5 like the 1-5 scores
WeightedSumsRougeDiv5(cfg, relevance, hallucination, rouge) ==
    LET a0 == [overall_score |-> Zero, total_weight |-> Zero]
        a1 == AddTerm(a0, Truthy(relevance) /\ cfg.response_relevance,
                      IF Truthy(relevance) THEN RatDiv(FromInt(relevance.score), Five) ELSE Zero,
                      cfg.response_relevance_weight)
        a2 == AddTerm(a1, Truthy(relevance) /\ cfg.response_completeness,
                      IF Truthy(relevance) THEN RatDiv(FromInt(relevance.score), Five) ELSE Zero,
                      cfg.response_completeness_weight)
        a3 == AddTerm(a2, Truthy(hallucination),
                      IF Truthy(hallucination) THEN RatDiv(FromInt(hallucination.score), Five) ELSE Zero,
                      cfg.hallucination_weight)
        a4 == AddTerm(a3, Truthy(rouge),
                      IF Truthy(rouge) THEN RatDiv(rouge.average_score, Five) ELSE Zero,
                      cfg.rouge_weight)
    IN  a4

\* mutant of WeightedSums: the completeness term reads a value of its own
WeightedSumsOwnCompleteness(cfg, relevance, hallucination, rouge) ==
    LET a0 == [overall_score |-> Zero, total_weight |-> Zero]
        a1 == AddTerm(a0, Truthy(relevance) /\ cfg.response_relevance,
                      IF Truthy(relevance) THEN RatDiv(FromInt(relevance.score), Five) ELSE Zero,
                      cfg.response_relevance_weight)
        a2 == AddTerm(a1, Truthy(relevance) /\ cfg.response_completeness,
                      FromInt(1),
                      cfg.response_completeness_weight)
        a3 == AddTerm(a2, Truthy(hallucination),
                      IF Truthy(hallucination) THEN RatDiv(FromInt(hallucination.score), Five) ELSE Zero,
                      cfg.hallucination_weight)
        a4 == AddTerm(a3, Truthy(rouge),
                      IF Truthy(rouge) THEN rouge.average_score ELSE Zero,
                      cfg.rouge_weight)
    IN  a4

WeightedSums(cfg, relevance, hallucination, rouge) ==
    LET a0 == [overall_score |-> Zero, total_weight |-> Zero]
        a1 == AddTerm(a0, Truthy(relevance) /\ cfg.response_relevance,
                      IF Truthy(relevance) THEN RatDiv(FromInt(relevance.score), Five) ELSE Zero,
                      cfg.response_relevance_weight)
        a2 == AddTerm(a1, Truthy(relevance) /\ cfg.response_completeness,
                      IF Truthy(relevance) THEN RatDiv(FromInt(relevance.score), Five) ELSE Zero,
                      cfg.response_completeness_weight)
        a3 == AddTerm(a2, Truthy(hallucination),
                      IF Truthy(hallucination) THEN RatDiv(FromInt(hallucination.score), Five) ELSE Zero,
                      cfg.hallucination_weight)
        a4 == AddTerm(a3, Truthy(rouge),
                      IF Truthy(rouge) THEN rouge.average_score ELSE Zero,
                      cfg.rouge_weight)
    IN  a4

\* mutant of Normalize: the weighted sum is not divided by the total weight
NormalizeNoRenorm(acc) ==
    IF RatLt(Zero, acc.total_weight)
    THEN RatMul(acc.overall_score, Five)
    ELSE Zero

\* lines 132-136: normalize to the 0-5 scale
Normalize(acc) ==
    IF RatLt(Zero, acc.total_weight)
    THEN RatMul(RatDiv(acc.overall_score, acc.total_weight), Five)
    ELSE Zero

OverallScore(cfg, relevance, hallucination, rouge) ==
    Normalize(WeightedSums(cfg, relevance, hallucination, rouge))

\* The whole call: either it raises out of a strategy, or it returns an EvaluationResult
evaluate_response(cfg, ld, turn_id, user_query, ai_response, o) ==
    LET rel == RelevanceStage(cfg, o)
        hal == HallucinationStage(cfg, ld, o)
        rou == RougeStage(cfg, o)
    IN  IF rel.value = Raised
        THEN [raised |-> TRUE, calls |-> rel.calls, result |-> None]
        ELSE IF hal.value = Raised
        THEN [raised |-> TRUE, calls |-> rel.calls \o hal.calls, result |-> None]
        ELSE IF rou.value = Raised
        THEN [raised |-> TRUE, calls |-> rel.calls \o hal.calls \o rou.calls, result |-> None]
        ELSE [raised |-> FALSE, calls |-> rel.calls \o hal.calls \o rou.calls,
              result |-> EvaluationResult(turn_id, user_query, ai_response,
                                          rel.value, hal.value, rou.value,
                                          OverallScore(cfg, rel.value, hal.value, rou.value))]

\* The outcomes the strategies dispatched for cfg can produce, in call order;
\* a strategy that is not reached has outcome None
Outcomes(cfg, ld, S, R) ==
    LET relSet == IF RunsRelevance(cfg) THEN RelevanceOutcomes(S) ELSE {None}
        halSet(r) ==
            IF r # Raised /\ cfg.hallucination /\ cfg.hallucination_method # "lettucedetect"
            THEN JudgeHallucinationOutcomes(S) ELSE {None}
        ldSet(r) ==
            IF r # Raised /\ cfg.hallucination /\ cfg.hallucination_method = "lettucedetect" /\ ld
            THEN LettuceDetectOutcomes(S) ELSE {None}
        rougeReached(r, h) ==
            /\ r # Raised /\ h # Raised /\ cfg.rouge
            /\ ~(cfg.hallucination /\ cfg.hallucination_method = "lettucedetect" /\ ~ld)
        judgeSet(r, h) ==
            IF rougeReached(r, h) /\ cfg.rouge_method = "llm_judge"
            THEN JudgeRougeOutcomes(R) ELSE {None}
        ngramSet(r, h, j) ==
            IF rougeReached(r, h) /\ (cfg.rouge_method # "llm_judge" \/ j = Raised)
            THEN NgramOutcomes(R) ELSE {None}
    IN  UNION { UNION { UNION { UNION {
            { [relevance |-> r, hallucination |-> h, lettucedetect |-> l,
               judge_rouge |-> j, ngram |-> n] : n \in ngramSet(r, h, j) }
            : j \in judgeSet(r, h) } : l \in ldSet(r) } : h \in halSet(r) } : r \in relSet }


----------------------------------------------------------------------------
(* Specification of the orchestrator alone: one UnifiedEvaluator, constructed
   with any MetricsConfig, evaluating single responses *)

\* the calls of the evaluation of pair k, for the invocation log
Tagged(k, cs) == [i \in 1..Len(cs) |-> <<k, cs[i]>>]

NoEvaluation == [raised |-> FALSE, calls |-> <<>>, result |-> None]

NoCall == input = None /\ output = None

SessionIdle ==
    /\ conversation = <<>>
    /\ target_turn = [given |-> FALSE, value |-> 0]
    /\ ai_responses = <<>>
    /\ idx = 0
    /\ results = <<>>
    /\ pc = "idle"
    /\ invocations = 0

\* UnifiedEvaluator.__init__ with any config, with or without an injected
\* transformer evaluator
InitUnified ==
    /\ config \in MetricsConfig
    /\ \E injected \in BOOLEAN :
          lettucedetect_evaluator = InitLettuceDetect(config, injected)
    /\ calls = <<>>
    /\ last = NoEvaluation
    /\ SessionIdle
    /\ NoCall

\* One call of UnifiedEvaluator.evaluate_response on a fresh orchestrator (the call
\* reads nothing an earlier call wrote, so a second call adds no behaviour)
EvaluateResponse ==
    /\ last = NoEvaluation /\ calls = <<>>
    /\ \E o \in Outcomes(config, lettucedetect_evaluator, Scores, RougeValues) :
          LET r == evaluate_response(config, lettucedetect_evaluator, 1, "Q", "A", o)
          IN  /\ last' = r
              /\ calls' = Tagged(1, r.calls)
              /\ input' = o
    /\ UNCHANGED <<evalVars, sessionVars, output>>

NextUnified == EvaluateResponse

SpecUnified == InitUnified /\ [][NextUnified]_vars

Evaluated == last.result # None

HasCall(c) == \E i \in 1..Len(last.calls) : last.calls[i] = c

AllDisabled(cfg) ==
    ~cfg.response_relevance /\ ~cfg.response_completeness /\ ~cfg.hallucination /\ ~cfg.rouge

NonNegativeWeights(cfg) ==
    /\ RatLeq(Zero, cfg.response_relevance_weight)
    /\ RatLeq(Zero, cfg.response_completeness_weight)
    /\ RatLeq(Zero, cfg.hallucination_weight)
    /\ RatLeq(Zero, cfg.rouge_weight)

----------------------------------------------------------------------------
(* Claims about UnifiedEvaluator.evaluate_response, checked under SpecUnified *)

\* C1: with response_relevance, response_completeness, hallucination and rouge all
\* disabled, evaluate_response invokes no strategy, does not raise, and returns
\* overall_score 0.0 with relevance, hallucination and rouge absent, whatever the
\* weights and method names are.
C1_AllDisabledScoresZero ==
    (last # NoEvaluation /\ AllDisabled(config)) =>
        /\ ~last.raised
        /\ last.calls = <<>>
        /\ last.result.overall_score = Zero
        /\ last.result.relevance = None
        /\ last.result.hallucination = None
        /\ last.result.rouge = None

C1_Witness ==
    /\ Evaluated /\ AllDisabled(config)
    /\ config.response_relevance_weight = Rat(3, 10)
    /\ config.hallucination_method = "bogus"

\* C2: with non-negative weights, for every subset of enabled metrics and strategy
\* results on their declared scales, the returned overall_score lies in [0, 5].
C2_OverallScoreInRange ==
    (Evaluated /\ NonNegativeWeights(config)) =>
        /\ RatLeq(Zero, last.result.overall_score)
        /\ RatLeq(last.result.overall_score, Five)

C2_Witness ==
    /\ Evaluated /\ NonNegativeWeights(config)
    /\ config.response_relevance /\ config.hallucination /\ config.rouge
    /\ last.result.overall_score = Five

\* C3: in every returned EvaluationResult relevance is present iff response_relevance
\* or response_completeness is enabled, hallucination iff hallucination is enabled,
\* rouge iff rouge is enabled; and a strategy is invoked only for an enabled metric
\* (also in calls that end in an error).
C3_PresentIffEnabled ==
    /\ Evaluated =>
          /\ (last.result.relevance # None) <=>
                (config.response_relevance \/ config.response_completeness)
          /\ (last.result.hallucination # None) <=> config.hallucination
          /\ (last.result.rouge # None) <=> config.rouge
    /\ HasCall("LLMEvaluator.evaluate_relevance") =>
          (config.response_relevance \/ config.response_completeness)
    /\ (HasCall("LLMEvaluator.evaluate_hallucination")
            \/ HasCall("LettuceDetectEvaluator.evaluate")) => config.hallucination
    /\ (HasCall("ROUGEEvaluator.evaluate") \/ HasCall("LLMClient.call")
            \/ HasCall("UnifiedEvaluator._evaluate_rouge_with_llm")) => config.rouge

C3_Witness ==
    /\ Evaluated
    /\ ~config.response_relevance /\ config.response_completeness
    /\ ~config.hallucination /\ config.rouge
    /\ last.result.relevance # None /\ last.result.hallucination = None
    /\ last.result.rouge # None

ScaleFactors == {Rat(2, 1), Rat(1, 3), Rat(10, 9)}

\* every enabled weight multiplied by k
ScaleEnabledWeights(cfg, k) ==
    [cfg EXCEPT
       !.response_relevance_weight =
            IF cfg.response_relevance THEN RatMul(@, k) ELSE @,
       !.response_completeness_weight =
            IF cfg.response_completeness THEN RatMul(@, k) ELSE @,
       !.hallucination_weight = IF cfg.hallucination THEN RatMul(@, k) ELSE @,
       !.rouge_weight = IF cfg.rouge THEN RatMul(@, k) ELSE @]

C5Terms(cfg, r) ==
    <<IF cfg.response_relevance
         THEN <<Rat(r.relevance.score, 5), cfg.response_relevance_weight>>
         ELSE <<Zero, Zero>>,
      IF cfg.response_completeness
         THEN <<Rat(r.relevance.score, 5), cfg.response_completeness_weight>>
         ELSE <<Zero, Zero>>,
      IF r.hallucination # None
         THEN <<Rat(r.hallucination.score, 5), cfg.hallucination_weight>>
         ELSE <<Zero, Zero>>,
      IF r.rouge # None
         THEN <<r.rouge.average_score, cfg.rouge_weight>>
         ELSE <<Zero, Zero>> >>

RECURSIVE SumWeighted(_, _)
SumWeighted(terms, i) ==
    IF i = 0 THEN Zero
    ELSE RatAdd(SumWeighted(terms, i - 1), RatMul(terms[i][1], terms[i][2]))

RECURSIVE SumWeights(_, _)
SumWeights(terms, i) ==
    IF i = 0 THEN Zero ELSE RatAdd(SumWeights(terms, i - 1), terms[i][2])

\* C5: overall_score = 5 * weighted_sum / total_weight when total_weight > 0 and 0.0
\* otherwise, with weighted_sum and total_weight built from exactly the terms of the
\* enabled relevance / completeness contributions and of the hallucination and ROUGE
\* results that ran (ROUGE's average not divided by 5).
C5_OverallScoreFormula ==
    Evaluated =>
        LET t == C5Terms(config, last.result)
            weighted_sum == SumWeighted(t, 4)
            total_weight == SumWeights(t, 4)
        IN  IF total_weight.n > 0
            THEN last.result.overall_score.n * total_weight.n * weighted_sum.d
                    = 5 * weighted_sum.n * total_weight.d * last.result.overall_score.d
            ELSE last.result.overall_score = Zero

C5_Witness ==
    /\ Evaluated
    /\ config.response_relevance /\ config.response_completeness
    /\ config.hallucination /\ config.rouge
    /\ config.response_relevance_weight = Rat(3, 10)
    /\ config.response_completeness_weight = Rat(1, 10)
    /\ config.hallucination_weight = Rat(3, 10)
    /\ config.rouge_weight = Rat(1, 10)
    /\ last.result.relevance.score = 5 /\ last.result.hallucination.score = 3
    /\ last.result.rouge.average_score = Rat(1, 2)
    /\ last.result.overall_score = Rat(63, 16)

\* calls that ended in an error ended inside a strategy, never in the dispatch
RaisedInsideStrategy ==
    last.raised =>
        /\ last.calls # <<>>
        /\ last.calls[Len(last.calls)] \in
              {"LLMEvaluator.evaluate_relevance", "LLMEvaluator.evaluate_hallucination",
               "ROUGEEvaluator.evaluate"}

\* C6: dispatch is total over method strings and never raises for an unknown name:
\* with hallucination enabled the transformer strategy is used iff
\* hallucination_method is "lettucedetect", the LLM-judge strategy for every other
\* string; with rouge enabled the LLM-judge ROUGE variant is used iff rouge_method
\* is "llm_judge", the n-gram strategy for every other string.
C6_DispatchTotal ==
    /\ RaisedInsideStrategy
    /\ HasCall("LettuceDetectEvaluator.evaluate") => config.hallucination_method = "lettucedetect"
    /\ HasCall("LLMEvaluator.evaluate_hallucination") => config.hallucination_method # "lettucedetect"
    /\ HasCall("UnifiedEvaluator._evaluate_rouge_with_llm") => config.rouge_method = "llm_judge"
    /\ (Evaluated /\ config.hallucination) =>
          /\ HasCall("LettuceDetectEvaluator.evaluate") <=>
                config.hallucination_method = "lettucedetect"
          /\ HasCall("LLMEvaluator.evaluate_hallucination") <=>
                config.hallucination_method # "lettucedetect"
    /\ (Evaluated /\ config.rouge) =>
          /\ HasCall("UnifiedEvaluator._evaluate_rouge_with_llm") <=>
                config.rouge_method = "llm_judge"
          /\ config.rouge_method # "llm_judge" =>
                /\ HasCall("ROUGEEvaluator.evaluate")
                /\ ~HasCall("LLMClient.call")

C6_Witness ==
    /\ Evaluated
    /\ config.hallucination /\ config.hallucination_method = "bogus"
    /\ config.rouge /\ config.rouge_method = "bogus"
    /\ HasCall("LLMEvaluator.evaluate_hallucination")
    /\ HasCall("ROUGEEvaluator.evaluate")

----------------------------------------------------------------------------
(* JSONDataLoader.get_ai_responses_with_context *)

Roles == {"User", "AI/Chatbot"}
PairingRoles == {"User", "AI/Chatbot", "System"}

\* the message of the turn at position i: every position has its own text
Message(i) == <<"A", "B", "C", "D", "E", "F", "G", "H">>[i]

\* the evaluation_note of the turn at position i, when it has one
Note(i) == [tag |-> "Note", of |-> Message(i)]

\* which turns of a conversation of n turns carry an evaluation_note
NoteSets(n) == {{}, {2}, 1..n}

\* a Conversation's conversation_turns: roles as given, turn ids counted from
\* `first`, an evaluation_note on the turns at the positions in `noted`
MakeConversation(roles, first, noted) ==
    [i \in 1..Len(roles) |->
        [turn |-> first + i - 1, role |-> roles[i], message |-> Message(i),
         evaluation_note |-> IF i \in noted THEN Note(i) ELSE None]]

SeqsUpTo(S, n) == UNION {[1..k -> S] : k \in 0..n}

\* mutant of IsEvaluable: the role of the preceding turn is not looked at
IsEvaluableAnyPrev(turns, i) ==
    turns[i].role = "AI/Chatbot" /\ i > 1

\* lines 189-192 (i is 1-based here, 0-based in the source)
IsEvaluable(turns, i) ==
    /\ turns[i].role = "AI/Chatbot" /\ i > 1
    /\ turns[i - 1].role = "User"

\* lines 185-201: the loop over the first i turns
RECURSIVE PairsUpTo(_, _)
PairsUpTo(turns, i) ==
    IF i = 0 THEN <<>>
    ELSE IF IsEvaluable(turns, i)
         THEN Append(PairsUpTo(turns, i - 1),
                     [turn_id |-> turns[i].turn,
                      user_query |-> turns[i - 1].message,
                      ai_response |-> turns[i].message,
                      evaluation_note |-> turns[i].evaluation_note])
         ELSE PairsUpTo(turns, i - 1)

get_ai_responses_with_context(turns) == PairsUpTo(turns, Len(turns))

----------------------------------------------------------------------------
(* Specification of the pairing function alone *)

InitPairing ==
    /\ config = DefaultMetricsConfig
    /\ lettucedetect_evaluator = InitLettuceDetect(config, FALSE)
    /\ calls = <<>>
    /\ last = NoEvaluation
    /\ \E roles \in SeqsUpTo(PairingRoles, MaxPairingTurns), first \in {0, 1} :
          \E noted \in NoteSets(Len(roles)) :
             conversation = MakeConversation(roles, first, noted)
    /\ target_turn = [given |-> FALSE, value |-> 0]
    /\ ai_responses = <<>>
    /\ idx = 0
    /\ results = <<>>
    /\ pc = "idle"
    /\ invocations = 0
    /\ NoCall

ApplyPairing ==
    /\ pc = "idle"
    /\ ai_responses' = get_ai_responses_with_context(conversation)
    /\ pc' = "paired"
    /\ UNCHANGED <<evalVars, calls, last, conversation, target_turn, idx, results,
                   invocations, callVars>>

NextPairing == ApplyPairing

SpecPairing == InitPairing /\ [][NextPairing]_vars

\* positions of the AI turns that directly follow a User turn
EvaluablePositions(turns) ==
    {i \in 2..Len(turns) : turns[i].role = "AI/Chatbot" /\ turns[i - 1].role = "User"}

KthSmallest(S, k) == CHOOSE x \in S : Cardinality({y \in S : y < x}) = k - 1

RolesOf(turns) == [i \in 1..Len(turns) |-> turns[i].role]

\* C9: get_ai_responses_with_context yields exactly one pair (preceding user message,
\* AI message, the AI turn's id) for each AI turn immediately preceded by a User
\* turn, in conversation order, and nothing else; so [User A, AI B, AI C, User D,
\* AI E] gives exactly (A,B), (D,E).
C9_TurnPairing ==
    pc = "paired" =>
        LET P == EvaluablePositions(conversation) IN
        /\ Len(ai_responses) = Cardinality(P)
        /\ \A k \in 1..Len(ai_responses) :
              LET p == KthSmallest(P, k) IN
              ai_responses[k] = [turn_id |-> conversation[p].turn,
                                 user_query |-> conversation[p - 1].message,
                                 ai_response |-> conversation[p].message,
                                 evaluation_note |-> conversation[p].evaluation_note]
        /\ RolesOf(conversation) = <<"User", "AI/Chatbot", "AI/Chatbot", "User", "AI/Chatbot">>
              => /\ Len(ai_responses) = 2
                 /\ <<ai_responses[1].user_query, ai_responses[1].ai_response>> = <<"A", "B">>
                 /\ <<ai_responses[2].user_query, ai_responses[2].ai_response>> = <<"D", "E">>

C9_Witness ==
    /\ pc = "paired"
    /\ RolesOf(conversation) = <<"User", "AI/Chatbot", "AI/Chatbot", "User", "AI/Chatbot">>
    /\ Len(ai_responses) = 2
    /\ ai_responses[2] = [turn_id |-> conversation[5].turn, user_query |-> "D",
                          ai_response |-> "E", evaluation_note |-> None]

----------------------------------------------------------------------------
(* EvaluationPipeline.evaluate_conversation: the evaluation session *)

NoTarget == [given |-> FALSE, value |-> 0]
TargetTurns == {NoTarget} \cup {[given |-> TRUE, value |-> v] : v \in 0..2}

\* Python truthiness of Optional[int]: None and 0 are false
TruthyInt(t) == t.given /\ t.value # 0

\* lines 53-54
FilterByTarget(pairs, t) ==
    IF TruthyInt(t)
    THEN SelectSeq(pairs, LAMBDA r : r.turn_id = t.value)
    ELSE pairs

\* mutant of ResetResults: the list of the earlier invocation is kept
KeepResults(old) == old

\* line 56: self.results = []
ResetResults(old) == <<>>

\* mutant of AfterTurn: a failing turn is skipped and the loop goes on
AfterTurnIsolated(res, i, r) ==
    IF r.raised
    THEN [pc |-> "loop", results |-> res, idx |-> i + 1]
    ELSE [pc |-> "loop", results |-> Append(res, r.result), idx |-> i + 1]

\* lines 64-72: an error leaves the loop and the call; a result is appended
AfterTurn(res, i, r) ==
    IF r.raised
    THEN [pc |-> "raised", results |-> res, idx |-> i]
    ELSE [pc |-> "loop", results |-> Append(res, r.result), idx |-> i + 1]

DisabledMetricsConfig ==
    [DefaultMetricsConfig EXCEPT !.response_relevance = FALSE,
        !.response_completeness = FALSE, !.hallucination = FALSE, !.rouge = FALSE]

SessionConfigs == {DefaultMetricsConfig, DisabledMetricsConfig}
SessionScores == {4}
SessionRougeValues == {Rat(1, 2)}

\* EvaluationPipeline.__init__ around a constructed evaluator
Init ==
    /\ config \in SessionConfigs
    /\ lettucedetect_evaluator = InitLettuceDetect(config, FALSE)
    /\ calls = <<>>
    /\ last = NoEvaluation
    /\ SessionIdle
    /\ NoCall

\* lines 48-56: load both files, pair the turns, filter, reset the result list
Invoke ==
    /\ pc \in {"idle", "raised"}
    /\ invocations < MaxInvocations
    /\ \E roles \in SeqsUpTo(Roles, MaxTurns), first \in {0, 1}, t \in TargetTurns :
        \E noted \in NoteSets(Len(roles)) :
          /\ conversation' = MakeConversation(roles, first, noted)
          /\ target_turn' = t
          /\ ai_responses' =
                FilterByTarget(get_ai_responses_with_context(conversation'), t)
    /\ results' = ResetResults(results)
    /\ idx' = 1
    /\ pc' = "loop"
    /\ calls' = <<>>
    /\ last' = NoEvaluation
    /\ invocations' = invocations + 1
    /\ UNCHANGED <<evalVars, callVars>>

\* lines 48-49: a file cannot be opened or parsed; the call raises before line 56
LoadFails ==
    /\ pc \in {"idle", "raised"}
    /\ invocations < MaxInvocations
    /\ pc' = "raised"
    /\ invocations' = invocations + 1
    /\ calls' = <<>>
    /\ last' = NoEvaluation
    /\ UNCHANGED <<evalVars, callVars, conversation, target_turn, ai_responses, idx, results>>

\* lines 58-72: one iteration of the loop, for the pair at position idx
EvaluateTurn ==
    /\ pc = "loop"
    /\ idx <= Len(ai_responses)
    /\ \E o \in Outcomes(config, lettucedetect_evaluator, SessionScores, SessionRougeValues) :
          LET response_data == ai_responses[idx]
              r == evaluate_response(config, lettucedetect_evaluator,
                                     response_data.turn_id, response_data.user_query,
                                     response_data.ai_response, o)
              a == AfterTurn(results, idx, r)
          IN  /\ last' = r
              /\ calls' = calls
                    \o <<<<idx, "JSONDataLoader.extract_context_for_turn">>>>
                    \o Tagged(idx, r.calls)
              /\ results' = a.results
              /\ idx' = a.idx
              /\ pc' = a.pc
              /\ IF a.pc = "raised"
                 THEN conversation' = <<>> /\ ai_responses' = <<>> /\ target_turn' = NoTarget
                 ELSE UNCHANGED <<conversation, ai_responses, target_turn>>
    /\ UNCHANGED <<evalVars, callVars, invocations>>

\* line 74: the loop is exhausted, self.results is returned, the locals are gone
Return ==
    /\ pc = "loop"
    /\ idx > Len(ai_responses)
    /\ pc' = "idle"
    /\ conversation' = <<>>
    /\ ai_responses' = <<>>
    /\ target_turn' = NoTarget
    /\ idx' = 0
    /\ UNCHANGED <<evalVars, callVars, calls, last, results, invocations>>

Next == Invoke \/ LoadFails \/ EvaluateTurn \/ Return

Spec == Init /\ [][Next]_vars

\* the loop is a sequential for loop: an enabled iteration or return is taken
FairSpec == Spec /\ WF_vars(EvaluateTurn) /\ WF_vars(Return)

----------------------------------------------------------------------------
(* Claims about the evaluation session *)

\* result k is the result of pair k
ResultsMatchPairs ==
    \A k \in 1..Len(results) :
        /\ k <= Len(ai_responses)
        /\ results[k].turn_id = ai_responses[k].turn_id
        /\ results[k].user_query = ai_responses[k].user_query
        /\ results[k].ai_response = ai_responses[k].ai_response

\* the log of an invocation: pairs are worked on in order, one after the other,
\* each starting with its context extraction, and only pairs before idx or the
\* one that raised were touched
CallsInOrder ==
    /\ \A i, j \in 1..Len(calls) : i < j => calls[i][1] <= calls[j][1]
    /\ \A i \in 1..Len(calls) :
          (i = 1 \/ calls[i - 1][1] # calls[i][1]) <=>
              calls[i][2] = "JSONDataLoader.extract_context_for_turn"
    /\ \A i \in 1..Len(calls) : calls[i][1] <= Len(results) + 1

LoopInvariant ==
    pc = "loop" =>
        /\ idx \in 1..(Len(ai_responses) + 1)
        /\ Len(results) = idx - 1
        /\ ResultsMatchPairs
        /\ \A i \in 1..Len(calls) : calls[i][1] < idx
        /\ ai_responses =
              FilterByTarget(get_ai_responses_with_context(conversation), target_turn)
        /\ \A k, l \in 1..Len(results) : k < l => results[k].turn_id < results[l].turn_id

AppendOnly ==
    pc = "loop" =>
        \/ results' = results
        \/ /\ Len(results') = Len(results) + 1
           /\ SubSeq(results', 1, Len(results)) = results
           /\ idx' = idx + 1

ReturnsOnePerPair ==
    (pc = "loop" /\ pc' = "idle") =>
        /\ results' = results
        /\ Len(results) = Len(ai_responses)
        /\ ResultsMatchPairs
        /\ Len(ai_responses) = 0 => calls = <<>>

\* C7: the session evaluates the evaluable pairs strictly in conversation order and
\* one at a time; during the loop the result list changes only by appending; the loop
\* always ends, and a normal return leaves exactly one result per filtered pair, in
\* pair order, with nothing of an earlier invocation; with zero pairs the result is
\* empty and no strategy is invoked.
C7_SessionOrdering ==
    /\ [](LoopInvariant /\ CallsInOrder)
    /\ [][AppendOnly /\ ReturnsOnePerPair]_vars
    /\ (pc = "loop") ~> (pc \in {"idle", "raised"})

C7_Witness ==
    /\ pc = "loop" /\ invocations = 2
    /\ Len(ai_responses) = 2 /\ idx = 3 /\ Len(results) = 2
    /\ results[1].turn_id = 1 /\ results[2].turn_id = 3
    /\ Len(calls) = 8

RaiseKeepsPartialResults ==
    (pc = "loop" /\ Len(calls') > Len(calls) /\ last'.raised) =>
        /\ pc' = "raised"
        /\ results' = results
        /\ Len(results) = idx - 1
        /\ ResultsMatchPairs
        /\ calls'[Len(calls')][1] = idx

NothingAfterRaise ==
    pc = "raised" =>
        \/ results' = results /\ calls' = calls /\ pc' = "raised"
        \/ invocations' = invocations + 1

\* C8: if the evaluator raises while evaluating pair k, evaluate_conversation ends in
\* that error, no later pair is evaluated, no result for pair k is recorded, and the
\* session's result list holds exactly the results of pairs 1..k-1 of that
\* invocation, in order.
C8_RaiseAbortsBatch ==
    /\ [][RaiseKeepsPartialResults]_vars
    /\ [][NothingAfterRaise]_vars

C8_Witness ==
    /\ pc = "raised" /\ last.raised
    /\ Len(results) = 1
    /\ calls[Len(calls)] = <<2, "LLMEvaluator.evaluate_hallucination">>

\* C10: whenever a target turn id t is supplied (every integer t, 0 included), the
\* results contain only results whose turn_id equals t; if t matches no evaluable
\* pair the result list is empty.
C10_TurnFilter ==
    (pc = "loop" /\ target_turn.given) =>
        /\ \A k \in 1..Len(results) : results[k].turn_id = target_turn.value
        /\ (\A i \in 1..Len(conversation) : conversation[i].turn # target_turn.value)
              => ai_responses = <<>>

\* C11: evaluation_note is carried through from the source data: the result of
\* every evaluable pair carries the evaluation_note of its AI turn (absent only
\* when the source turn has none).
C11_NoteCarriedThrough ==
    pc = "loop" =>
        \A k \in 1..Len(results) :
            results[k].evaluation_note = ai_responses[k].evaluation_note

\* ---------------------------------------------------------------------------
\* The command line entry point (src/llm_evaluator.py main)

\* argparse choices of --provider, and its default
Providers == {"openai", "anthropic", "huggingface", "mock"}
DefaultProvider == "openai"

\* providers a config file may name
ConfigProviders == {"openai", "anthropic", "huggingface"}

\* an error leaving main
RaisedError(e) == [tag |-> "Raised", error |-> e]

\* parsed command line: which of the named files exist, --mock, --provider,
\* whether --model differs from its default, --turn
Args ==
    [conversation_file_exists : BOOLEAN, context_vectors_file_exists : BOOLEAN,
     config_exists : BOOLEAN, mock : BOOLEAN, provider : Providers,
     model_given : BOOLEAN, turn : TargetTurns]

\* main after parse_args
InitCLI ==
    /\ input \in Args
    /\ output = None
    /\ config = None
    /\ lettucedetect_evaluator = None
    /\ calls = <<>>
    /\ last = NoEvaluation
    /\ SessionIdle

\* ConfigLoader.load: the file's config, or the default one when it is missing;
\* then the provider override of main
LoadConfig ==
    /\ pc = "idle"
    /\ \E cfg \in (IF input.config_exists THEN SessionConfigs
                                          ELSE {DefaultMetricsConfig}),
          p \in (IF input.config_exists THEN ConfigProviders
                                        ELSE {DefaultProvider}) :
          /\ config' = cfg
          /\ output' = [tag |-> "main", evaluator |-> "unset",
                        provider |-> IF input.provider # DefaultProvider
                                        \/ input.model_given
                                     THEN input.provider ELSE p]
    /\ pc' = "configured"
    /\ UNCHANGED <<lettucedetect_evaluator, calls, last, conversation,
                   target_turn, ai_responses, idx, results, invocations, input>>

\* LLMEvaluator.__init__: only openai and anthropic have a client
KnownProvider(p) == p \in {"openai", "anthropic"}

\* main builds MockLLMEvaluator under --mock, LLMEvaluator otherwise
BuildEvaluator ==
    /\ pc = "configured"
    /\ IF input.mock
       THEN output' = [output EXCEPT !.evaluator = "MockLLMEvaluator"]
                 /\ pc' = "built"
       ELSE IF KnownProvider(output.provider)
       THEN output' = [output EXCEPT !.evaluator = "LLMEvaluator"]
                 /\ pc' = "built"
       ELSE output' = RaisedError("ValueError") /\ pc' = "exited"
    /\ UNCHANGED <<evalVars, calls, last, conversation, target_turn,
                   ai_responses, idx, results, invocations, input>>

\* parameters EvaluationPipeline.__init__ accepts besides self
PipelineParameters ==
    {"evaluator", "data_loader", "text_report_generator", "json_report_generator"}

\* EvaluationPipeline(evaluator, config=config): a keyword the constructor
\* does not accept ends main with TypeError, outside its try block
ConstructPipeline ==
    /\ pc = "built"
    /\ IF {"evaluator", "config"} \subseteq PipelineParameters
       THEN pc' = "pipeline" /\ output' = output
       ELSE pc' = "exited" /\ output' = RaisedError("TypeError")
    /\ UNCHANGED <<evalVars, calls, last, conversation, target_turn,
                   ai_responses, idx, results, invocations, input>>

NextCLI == LoadConfig \/ BuildEvaluator \/ ConstructPipeline

SpecCLI == InitCLI /\ [][NextCLI]_vars

\* C12: a session started from the CLI with a loaded config evaluates through
\* the Unified Orchestrator: the evaluator main builds for the pipeline is the
\* UnifiedEvaluator for that config, and the pipeline is constructed with it.
C12_CLIUsesUnifiedEvaluator ==
    /\ pc = "built" => output.evaluator = "UnifiedEvaluator"
    /\ pc = "exited" => output.error # "TypeError"

\* ---------------------------------------------------------------------------
\* LLMEvaluator.evaluate_relevance (src/evaluators/llm_evaluator.py)

\* Python 3 round() of a rational: nearest integer, a tie goes to the even one
PyRound(q) ==
    LET f == q.n \div q.d
        twice == 2 * (q.n - f * q.d)
    IN  IF twice < q.d THEN f
        ELSE IF twice > q.d THEN f + 1
        ELSE IF f % 2 = 0 THEN f ELSE f + 1

\* sub-scores a judge may answer with: the scale 1..5 and one value off each end
JudgeScores == 0..6

\* the parsed judge answer of the relevance prompt
RelevanceAnswers ==
    [relevance_score : JudgeScores, completeness_score : JudgeScores,
     is_relevant : BOOLEAN, is_complete : BOOLEAN]

\* mutant of avg_score: the sum of the two sub-scores, not halved
avg_score_sum(result) == FromInt(result.relevance_score + result.completeness_score)

\* line 85
avg_score(result) == Rat(result.relevance_score + result.completeness_score, 2)

\* lines 85-94: the RelevanceResult built from the parsed answer
evaluate_relevance(result) ==
    [tag |-> "RelevanceResult", score |-> PyRound(avg_score(result)),
     is_relevant |-> result.is_relevant, is_complete |-> result.is_complete]

\* the judge has answered and the answer has been parsed
InitRelevance ==
    /\ input \in RelevanceAnswers
    /\ output = None
    /\ config = None
    /\ lettucedetect_evaluator = None
    /\ calls = <<>>
    /\ last = NoEvaluation
    /\ SessionIdle

ReturnRelevance ==
    /\ pc = "idle"
    /\ output' = evaluate_relevance(input)
    /\ pc' = "returned"
    /\ UNCHANGED <<evalVars, calls, last, conversation, target_turn,
                   ai_responses, idx, results, invocations, input>>

NextRelevance == ReturnRelevance

SpecRelevance == InitRelevance /\ [][NextRelevance]_vars

\* C13: for every judge answer whose relevance_score and completeness_score are
\* integers in 1..5, RelevanceResult.score is an integer in 1..5 and is a nearest
\* integer of their arithmetic mean: it differs from the mean by at most 1/2,
\* also when the mean is a half as for (2,3) and (4,5).
C13_RelevanceScoreRoundedMean ==
    (/\ pc = "returned"
     /\ input.relevance_score \in Scores
     /\ input.completeness_score \in Scores)
    => /\ output.score \in Scores
       /\ Abs(2 * output.score
              - (input.relevance_score + input.completeness_score)) <= 1

\* a half mean has been rounded: (2,3) gave 2 and its result is recorded
C13_Witness ==
    /\ pc = "returned"
    /\ input.relevance_score = 2 /\ input.completeness_score = 3
    /\ output.score = 2

\* ---------------------------------------------------------------------------
\* LettuceDetectEvaluator.evaluate (src/evaluators/lettucedetect_evaluator.py)

\* a text is a sequence of one-character strings
Whitespace == {" "}

\* string.punctuation, the 32 characters in their order (the grave accent is
\* written "GRAVE": the character cannot stand in a string here)
string_punctuation ==
    <<"!", "\"", "#", "$", "%", "&", "'", "(", ")", "*", "+", ",", "-", ".", "/",
      ":", ";", "<", "=", ">", "?", "@", "[", "\\", "]", "^", "_", "GRAVE", "{", "|",
      "}", "~">>

RECURSIVE LStrip(_)
LStrip(t) == IF t # <<>> /\ Head(t) \in Whitespace THEN LStrip(Tail(t)) ELSE t

RECURSIVE RStrip(_)
RStrip(t) ==
    IF t # <<>> /\ t[Len(t)] \in Whitespace
    THEN RStrip(SubSeq(t, 1, Len(t) - 1)) ELSE t

\* str.strip()
Strip(t) == RStrip(LStrip(t))

\* whether `old` occurs in t at position 1
StartsWith(t, old) == Len(old) <= Len(t) /\ SubSeq(t, 1, Len(old)) = old

\* str.replace(old, ""), old non-empty: every occurrence of the whole substring
\* `old`, scanning from the left, is removed
RECURSIVE Replace(_, _)
Replace(t, old) ==
    IF t = <<>> THEN <<>>
    ELSE IF StartsWith(t, old) THEN Replace(SubSeq(t, Len(old) + 1, Len(t)), old)
    ELSE <<Head(t)>> \o Replace(Tail(t), old)

\* bounds of the transformer strategy's inputs
ResponseLength == 20
MaxSpans == 2

\* span texts the detector may report: too short, too short once trimmed,
\* long enough, long enough only with its punctuation marks
SpanTexts ==
    {<<"a", "b", "c">>,
     <<" ", "a", "b", "c", "d", " ">>,
     <<"a", "b", "c", "d", "e", "f">>,
     <<"a", "!", "!", "!", "!">>}

\* thresholds of lines 118-119 and 126
MinClaimLength == 5
ConfidenceThreshold == Rat(4, 5)
MediumThreshold == Rat(1, 2)

Confidences == {Rat(1, 2), Rat(4, 5), Rat(9, 10)}

\* a prediction the span loop cannot process (not a dict, fields of a wrong type)
BadPrediction == [tag |-> "bad"]

\* what detector.predict may return as one element: a span with all its keys,
\* a span without positions, a span with its text only, or an unusable one
Predictions ==
    [start : {0}, end : {1, ResponseLength \div 4, ResponseLength},
     confidence : Confidences, text : SpanTexts]
    \cup {[confidence |-> Rat(9, 10), text |-> <<"a", "b", "c", "d", "e", "f">>],
          [text |-> <<"a", "b", "c", "d", "e", "f">>],
          BadPrediction}

\* dict.get(key, default)
Get(pred, key, default) == IF key \in DOMAIN pred THEN pred[key] ELSE default

\* lines 113-115
StartOf(pred) == Get(pred, "start", 0)
EndOf(pred) == Get(pred, "end", ResponseLength)
ConfidenceOf(pred) == Get(pred, "confidence", Zero)

\* mutant of Skipped: a span is dropped only when it fails both tests
SkippedIfBoth(pred) ==
    /\ Len(Replace(Strip(pred.text), string_punctuation)) < MinClaimLength
    /\ RatLt(ConfidenceOf(pred), ConfidenceThreshold)

\* lines 118-120
Skipped(pred) ==
    \/ Len(Replace(Strip(pred.text), string_punctuation)) < MinClaimLength
    \/ RatLt(ConfidenceOf(pred), ConfidenceThreshold)

\* mutant of Severity: a confidence at the threshold is high
SeverityHighAtThreshold(confidence) ==
    IF RatLeq(ConfidenceThreshold, confidence) THEN "high"
    ELSE IF RatLt(MediumThreshold, confidence) THEN "medium" ELSE "low"

\* line 126
Severity(confidence) ==
    IF RatLt(ConfidenceThreshold, confidence) THEN "high"
    ELSE IF RatLt(MediumThreshold, confidence) THEN "medium" ELSE "low"

\* lines 122-130
HallucinatedSpan(pred) ==
    [claim |-> Strip(pred.text), category |-> "fabricated",
     severity |-> Severity(ConfidenceOf(pred)),
     start |-> StartOf(pred), end |-> EndOf(pred),
     confidence |-> ConfidenceOf(pred)]

\* lines 107-132: the span loop; it stops where processing a prediction raises
RECURSIVE ProcessPredictions(_, _)
ProcessPredictions(preds, acc) ==
    IF preds = <<>> THEN acc
    ELSE LET pred == Head(preds)
         IN  IF pred = BadPrediction THEN [acc EXCEPT !.raised = TRUE]
             ELSE IF Skipped(pred) THEN ProcessPredictions(Tail(preds), acc)
             ELSE ProcessPredictions(Tail(preds),
                    [hallucinated_spans |-> Append(acc.hallucinated_spans,
                                                   HallucinatedSpan(pred)),
                     hallucinated_length |-> acc.hallucinated_length
                                             + (EndOf(pred) - StartOf(pred)),
                     raised |-> FALSE])

\* what evaluate is called with and what its detector does: the length of
\* ai_response (0: empty), the context vectors (none, none with text, some with
\* text), the detector (usable, package missing, predict raises) and the
\* predictions it returns
Contexts == {"none", "no_text", "text"}
Detectors == {"ok", "ImportError", "predict_raises"}

RECURSIVE SeqsOfLen(_, _)
SeqsOfLen(S, n) ==
    IF n = 0 THEN {<<>>}
    ELSE {Append(q, x) : q \in SeqsOfLen(S, n - 1), x \in S}

LettuceCall(len, context, detector, predictions) ==
    [ai_response_length |-> len, context |-> context, detector |-> detector,
     predictions |-> predictions]

\* every call that returns early or fails before the span loop, and every list
\* of up to MaxSpans predictions for a call that reaches the loop
LettuceCalls ==
    {LettuceCall(len, c, "ok", <<>>) :
        len \in {0, ResponseLength}, c \in Contexts}
    \cup {LettuceCall(ResponseLength, "text", d, <<>>) : d \in Detectors}
    \cup {LettuceCall(ResponseLength, "text", "ok", ps) :
            ps \in UNION {SeqsOfLen(Predictions, n) : n \in 0..MaxSpans}}

\* lines 77-82 and 88-93
CannotEvaluate(why) ==
    [tag |-> "HallucinationResult", score |-> 1, has_hallucination |-> FALSE,
     factual_accuracy |-> Zero, hallucinated_claims |-> <<>>,
     verified_claims |-> <<>>, explanation |-> <<why>>]

\* mutant of OnException: the error leaves evaluate
OnExceptionReraise(e) == RaisedError(e)

\* lines 176-182
OnException(e) ==
    [tag |-> "HallucinationResult", score |-> 3, has_hallucination |-> FALSE,
     factual_accuracy |-> Rat(1, 2), hallucinated_claims |-> <<>>,
     verified_claims |-> <<>>,
     explanation |-> <<"LettuceDetect evaluation error: ", e>>]

\* lines 135-138
FactualAccuracy(hallucinated_length, total_length) ==
    IF total_length > 0
    THEN RatAdd(FromInt(1), Rat(-hallucinated_length, total_length))
    ELSE Zero

\* mutant of ScoreFor: the breakpoints belong to the higher score
ScoreForInclusive(has_hallucination, factual_accuracy) ==
    IF ~has_hallucination THEN 5
    ELSE IF RatLeq(Rat(9, 10), factual_accuracy) THEN 4
    ELSE IF RatLeq(Rat(7, 10), factual_accuracy) THEN 3
    ELSE IF RatLeq(Rat(1, 2), factual_accuracy) THEN 2
    ELSE 1

\* lines 143-152
ScoreFor(has_hallucination, factual_accuracy) ==
    IF ~has_hallucination THEN 5
    ELSE IF RatLt(Rat(9, 10), factual_accuracy) THEN 4
    ELSE IF RatLt(Rat(7, 10), factual_accuracy) THEN 3
    ELSE IF RatLt(Rat(1, 2), factual_accuracy) THEN 2
    ELSE 1

\* mutant of HasHallucination: any prediction at all counts
HasHallucinationAnyPrediction(predictions, hallucinated_spans) ==
    Len(predictions) > 0

\* line 141
HasHallucination(predictions, hallucinated_spans) == Len(hallucinated_spans) > 0

\* lines 134-174: the result after a span loop that did not raise
Analysis(call, acc) ==
    LET factual_accuracy ==
            FactualAccuracy(acc.hallucinated_length, call.ai_response_length)
        has_hallucination ==
            HasHallucination(call.predictions, acc.hallucinated_spans)
    IN  [tag |-> "HallucinationResult",
         score |-> ScoreFor(has_hallucination, factual_accuracy),
         has_hallucination |-> has_hallucination,
         factual_accuracy |-> factual_accuracy,
         hallucinated_claims |-> acc.hallucinated_spans,
         verified_claims |-> IF has_hallucination THEN <<>> ELSE <<"ai_response">>,
         explanation |-> <<"LettuceDetect analysis: ", Len(acc.hallucinated_spans),
                           factual_accuracy>>]

\* lines 76-182
lettucedetect_evaluate(call) ==
    IF call.ai_response_length = 0 \/ call.context = "none"
    THEN CannotEvaluate("Cannot evaluate: missing response or context")
    ELSE IF call.context = "no_text"
    THEN CannotEvaluate("Cannot evaluate: no context text found")
    ELSE IF call.detector = "ImportError"
    THEN OnException("LettuceDetect evaluation requires lettucedetect package.")
    ELSE IF call.detector = "predict_raises"
    THEN OnException("predict failed")
    ELSE LET acc == ProcessPredictions(call.predictions,
                        [hallucinated_spans |-> <<>>, hallucinated_length |-> 0,
                         raised |-> FALSE])
         IN  IF acc.raised THEN OnException("bad prediction")
             ELSE Analysis(call, acc)

InitLettuce ==
    /\ input \in LettuceCalls
    /\ output = None
    /\ config = None
    /\ lettucedetect_evaluator = None
    /\ calls = <<>>
    /\ last = NoEvaluation
    /\ SessionIdle

LettuceEvaluate ==
    /\ pc = "idle"
    /\ output' = lettucedetect_evaluate(input)
    /\ pc' = "returned"
    /\ UNCHANGED <<evalVars, calls, last, conversation, target_turn,
                   ai_responses, idx, results, invocations, input>>

NextLettuce == LettuceEvaluate

SpecLettuce == InitLettuce /\ [][NextLettuce]_vars

LettuceReturned == pc = "returned" /\ output.tag = "HallucinationResult"

\* the span loop was reached and finished
Analysed == LettuceReturned /\ output.explanation[1] = "LettuceDetect analysis: "

RECURSIVE SpanLengths(_)
SpanLengths(spans) ==
    IF spans = <<>> THEN 0
    ELSE (Head(spans).end - Head(spans).start) + SpanLengths(Tail(spans))

\* C14: in the transformer strategy no span with confidence below 0.8 and no
\* span whose trimmed text is shorter than 5 characters appears in
\* hallucinated_claims, and none counts toward the hallucinated length: the
\* hallucinated share 1 - factual_accuracy is made of the listed spans only.
C14_SpanFilter ==
    LettuceReturned =>
        /\ \A k \in 1..Len(output.hallucinated_claims) :
              /\ ~RatLt(output.hallucinated_claims[k].confidence, Rat(4, 5))
              /\ Len(output.hallucinated_claims[k].claim) >= 5
        /\ Analysed =>
              output.factual_accuracy =
                  RatAdd(FromInt(1), Rat(-SpanLengths(output.hallucinated_claims),
                                         input.ai_response_length))

\* a low-confidence span and a span too short once trimmed were predicted next
\* to nothing else, and the result lists no claim and full accuracy
C14_Witness ==
    /\ Analysed
    /\ Len(input.predictions) = 2
    /\ input.predictions[1] # BadPrediction
    /\ input.predictions[2] # BadPrediction
    /\ ConfidenceOf(input.predictions[1]) = Rat(1, 2)
    /\ Len(input.predictions[1].text) = 6
    /\ ConfidenceOf(input.predictions[2]) = Rat(9, 10)
    /\ Len(Strip(input.predictions[2].text)) = 4
    /\ output.hallucinated_claims = <<>>
    /\ output.factual_accuracy = FromInt(1)

\* C15: on every return path of LettuceDetectEvaluator.evaluate,
\* has_hallucination is true exactly when hallucinated_claims is non-empty.
C15_HasHallucinationIffClaims ==
    LettuceReturned =>
        (output.has_hallucination <=> output.hallucinated_claims # <<>>)

\* predictions were made, one was dropped and one kept: the flag is set with
\* one claim listed
C15_Witness ==
    /\ Analysed
    /\ Len(input.predictions) = 2
    /\ Len(output.hallucinated_claims) = 1
    /\ output.has_hallucination

\* an internal failure of the strategy: the detector cannot be built, predict
\* raises, or a prediction cannot be processed
InternalFailure ==
    /\ input.ai_response_length > 0
    /\ input.context = "text"
    /\ \/ input.detector # "ok"
       \/ \E k \in 1..Len(input.predictions) : input.predictions[k] = BadPrediction

\* C16: the transformer strategy never raises on an internal failure: it returns
\* score 3, has_hallucination false, factual_accuracy 0.5, no claims and an
\* explanation that contains the error text.
C16_FailureAbsorbed ==
    (pc = "returned" /\ InternalFailure) =>
        /\ output.tag = "HallucinationResult"
        /\ output.score = 3
        /\ ~output.has_hallucination
        /\ output.factual_accuracy = Rat(1, 2)
        /\ output.hallucinated_claims = <<>>
        /\ output.verified_claims = <<>>
        /\ Len(output.explanation) = 2
        /\ output.explanation[1] = "LettuceDetect evaluation error: "
        /\ output.explanation[2] \in
              {"LettuceDetect evaluation requires lettucedetect package.",
               "predict failed", "bad prediction"}

\* a span had been collected when the next prediction failed: the collected
\* span is not reported
C16_Witness ==
    /\ pc = "returned"
    /\ Len(input.predictions) = 2
    /\ input.predictions[1] # BadPrediction
    /\ ~Skipped(input.predictions[1])
    /\ input.predictions[2] = BadPrediction
    /\ output.score = 3
    /\ output.hallucinated_claims = <<>>

\* ---------------------------------------------------------------------------
\* Judge failures in the orchestrator (input holds the outcomes of the
\* strategies the call reached)

\* evaluate_response has been called (it returned or raised)
Called == input # None

\* the judge call or the parsing of its answer failed in relevance or hallucination
JudgeFailed == input.relevance = Raised \/ input.hallucination = Raised

\* the same in the LLM-judge ROUGE variant
RougeJudgeFailed == input.judge_rouge = Raised

\* C17 as stated: a judge failure in any LLM-judge strategy the orchestrator
\* runs (relevance, hallucination or the LLM-judge ROUGE variant) ends
\* evaluate_response in an error, and no result is returned.
C17_JudgeFailureRaises ==
    (Called /\ (JudgeFailed \/ RougeJudgeFailed)) =>
        last.raised /\ last.result = None

\* C17 amended: a judge failure in the relevance or hallucination strategy ends
\* evaluate_response in an error with no result; a judge failure in the
\* LLM-judge ROUGE variant is absorbed: the n-gram strategy runs in its place,
\* its result is the rouge of the returned result, and the call ends in an
\* error only if the n-gram strategy raises too.
C17_JudgeFailureRaisesExceptRouge ==
    Called =>
        /\ JudgeFailed => last.raised /\ last.result = None
        /\ RougeJudgeFailed =>
              IF input.ngram = Raised
              THEN last.raised /\ last.result = None
              ELSE ~last.raised /\ last.result.rouge = input.ngram

\* the ROUGE judge failed, the n-gram strategy answered, and a result was returned
C17_Witness ==
    /\ Evaluated
    /\ RougeJudgeFailed
    /\ input.ngram # Raised
    /\ ~last.raised
    /\ last.result.rouge = input.ngram
    /\ last.calls[Len(last.calls)] = "ROUGEEvaluator.evaluate"

\* ---------------------------------------------------------------------------
\* LLMEvaluator._parse_json_response (src/evaluators/llm_evaluator.py)

\* a judge response, by what the three attempts find in it: whether the whole
\* text is JSON; whether the fence pattern matches and its group is JSON;
\* whether the brace pattern matches and its match is JSON; and its length
Finds == {"none", "valid", "invalid"}
ResponseLengths == {150, 200, 201, 250}
Responses ==
    [whole : {"valid", "invalid"}, fence : Finds, brace : Finds,
     length : ResponseLengths]

\* response[:200]
ExcerptLength == 200
Excerpt(response) ==
    IF response.length < ExcerptLength THEN response.length ELSE ExcerptLength

Parsed(from) == [tag |-> "Parsed", from |-> from]
ParseError(response) ==
    [tag |-> "Raised", error |-> "ValueError", excerpt |-> Excerpt(response)]

\* lines 43-55: json.loads inside the except block raises out of the function
parse_json_response(response) ==
    IF response.whole = "valid" THEN Parsed("whole")
    ELSE IF response.fence # "none"
    THEN IF response.fence = "valid" THEN Parsed("fence")
         ELSE RaisedError("JSONDecodeError")
    ELSE IF response.brace # "none"
    THEN IF response.brace = "valid" THEN Parsed("brace")
         ELSE RaisedError("JSONDecodeError")
    ELSE ParseError(response)

InitParse ==
    /\ input \in Responses
    /\ output = None
    /\ config = None
    /\ lettucedetect_evaluator = None
    /\ calls = <<>>
    /\ last = NoEvaluation
    /\ SessionIdle

ParseJsonResponse ==
    /\ pc = "idle"
    /\ output' = parse_json_response(input)
    /\ pc' = "returned"
    /\ UNCHANGED <<evalVars, calls, last, conversation, target_turn,
                   ai_responses, idx, results, invocations, input>>

NextParse == ParseJsonResponse

SpecParse == InitParse /\ [][NextParse]_vars

\* C18: _parse_json_response returns the first successful parse of (1) the whole
\* text, (2) the contents of a fenced code block, (3) a {...} span of the text,
\* where (3) is tried whenever (2) did not succeed - no fence, or fenced
\* contents that are not JSON; only if all three fail it raises the parse error
\* carrying the first 200 characters of the text.
C18_ThreeAttempts ==
    pc = "returned" =>
        output = IF input.whole = "valid" THEN Parsed("whole")
                 ELSE IF input.fence = "valid" THEN Parsed("fence")
                 ELSE IF input.brace = "valid" THEN Parsed("brace")
                 ELSE [tag |-> "Raised", error |-> "ValueError",
                       excerpt |-> IF input.length < 200 THEN input.length ELSE 200]

\* ---------------------------------------------------------------------------
\* ROUGEEvaluator.evaluate (src/evaluators/rouge_evaluator.py)

\* the three sub-metrics, in the order evaluate looks at them, and the names
\* that enable each
SubMetrics == <<"rouge_1", "rouge_2", "rouge_l">>
NamesOf(m) ==
    CASE m = "rouge_1" -> {"rouge-1", "rouge1"}
      [] m = "rouge_2" -> {"rouge-2", "rouge2"}
      [] m = "rouge_l" -> {"rouge-l", "rougel"}

\* the default list of ROUGEEvaluator.__init__ and MetricsConfig.__post_init__
DefaultRougeTypes == {"rouge-1", "rouge-2", "rouge-l"}

\* names a configured rouge_types list is made of (a list is modelled by the
\* set of its names: evaluate only tests membership and emptiness)
TypeNames == {"rouge-1", "rouge2", "rouge-l", "bogus"}

\* the evaluator's own list: the default one, or the one it was injected with
SelfRougeTypes == {DefaultRougeTypes, {"rouge-2"}}

RougeCall(has_response, context, scorer, rouge_types, self_rouge_types, f) ==
    [has_response |-> has_response, context |-> context, scorer |-> scorer,
     rouge_types |-> rouge_types, self_rouge_types |-> self_rouge_types,
     fmeasure |-> f]

NoScores == [m \in {"rouge_1", "rouge_2", "rouge_l"} |-> Zero]

\* calls that return early or cannot build the scorer, and every configured
\* list with every F1 triple for the calls that are scored
RougeCalls ==
    {RougeCall(r, c, "ok", DefaultRougeTypes, DefaultRougeTypes, NoScores) :
        r \in BOOLEAN, c \in Contexts}
    \cup {RougeCall(TRUE, "text", "ImportError", DefaultRougeTypes,
                    DefaultRougeTypes, NoScores)}
    \cup {RougeCall(TRUE, "text", "ok", t, st, f) :
            t \in SUBSET TypeNames, st \in SelfRougeTypes,
            f \in [{"rouge_1", "rouge_2", "rouge_l"} -> RougeValues]}

\* ROUGEResult() with the dataclass defaults
EmptyROUGEResult(explanation) ==
    [tag |-> "ROUGEResult", rouge_1 |-> None, rouge_2 |-> None, rouge_l |-> None,
     average_score |-> Zero, explanation |-> explanation]

\* line 82: an empty list is falsy
TypesToUse(rouge_types, self_rouge_types) ==
    IF rouge_types # {} THEN rouge_types ELSE self_rouge_types

\* lines 100, 108, 116
IsEnabled(m, types) == NamesOf(m) \cap types # {}

\* lines 97-121: enabled_scores
EnabledScores(types, f) ==
    LET pick(k) == IF IsEnabled(SubMetrics[k], types)
                   THEN <<f[SubMetrics[k]]>> ELSE <<>>
    IN  pick(1) \o pick(2) \o pick(3)

RECURSIVE RatSum(_)
RatSum(q) == IF q = <<>> THEN Zero ELSE RatAdd(Head(q), RatSum(Tail(q)))

\* lines 96-133
Scored(types, f) ==
    LET enabled_scores == EnabledScores(types, f)
        field(m) == IF IsEnabled(m, types) THEN f[m] ELSE None
    IN  [tag |-> "ROUGEResult",
         rouge_1 |-> field("rouge_1"), rouge_2 |-> field("rouge_2"),
         rouge_l |-> field("rouge_l"),
         average_score |-> IF enabled_scores # <<>>
                           THEN RatDiv(RatSum(enabled_scores),
                                       FromInt(Len(enabled_scores)))
                           ELSE Zero,
         explanation |-> IF enabled_scores # <<>>
                         THEN "ROUGE scores computed"
                         ELSE "No ROUGE metrics enabled"]

\* lines 77-133
rouge_evaluate(call) ==
    IF ~call.has_response \/ call.context = "none"
    THEN EmptyROUGEResult("Cannot compute ROUGE: missing response or context")
    ELSE IF call.context = "no_text"
    THEN EmptyROUGEResult("Cannot compute ROUGE: no reference text found in context")
    ELSE IF call.scorer = "ImportError"
    THEN RaisedError("ImportError")
    ELSE Scored(TypesToUse(call.rouge_types, call.self_rouge_types), call.fmeasure)

InitRouge ==
    /\ input \in RougeCalls
    /\ output = None
    /\ config = None
    /\ lettucedetect_evaluator = None
    /\ calls = <<>>
    /\ last = NoEvaluation
    /\ SessionIdle

RougeEvaluate ==
    /\ pc = "idle"
    /\ output' = rouge_evaluate(input)
    /\ pc' = "returned"
    /\ UNCHANGED <<evalVars, calls, last, conversation, target_turn,
                   ai_responses, idx, results, invocations, input>>

NextRouge == RougeEvaluate

SpecRouge == InitRouge /\ [][NextRouge]_vars

\* the call was scored: response, reference text and scorer were there
RougeScored ==
    /\ pc = "returned"
    /\ input.has_response /\ input.context = "text" /\ input.scorer = "ok"

\* the sub-metrics the configured list names
Configured == {m \in {"rouge_1", "rouge_2", "rouge_l"} :
                  NamesOf(m) \cap input.rouge_types # {}}

RECURSIVE SumOver(_, _)
SumOver(f, M) ==
    IF M = {} THEN Zero
    ELSE LET m == CHOOSE x \in M : TRUE
         IN  RatAdd(f[m], SumOver(f, M \ {m}))

\* C19: in the n-gram ROUGE strategy exactly the sub-metrics named in the
\* configured list have their score set, and average_score is the mean of
\* their F1 values; when the list enables none of the three (it is empty or
\* holds only unrecognized names) no score is set and average_score is 0.0.
C19_AverageOfConfigured ==
    RougeScored =>
        /\ \A m \in {"rouge_1", "rouge_2", "rouge_l"} :
              output[m] = IF m \in Configured THEN input.fmeasure[m] ELSE None
        /\ output.average_score =
              IF Configured = {} THEN Zero
              ELSE RatDiv(SumOver(input.fmeasure, Configured),
                          FromInt(Cardinality(Configured)))

\* ---------------------------------------------------------------------------
\* JSONDataLoader.extract_context_for_turn (src/loaders/json_loader.py)

\* size of the largest vector store explored
MaxVectors == 17

\* line 163: the not-used vectors kept; line 165: the vectors kept without a used list
MaxOthers == 10
FallbackCount == 15

\* a stored VectorData, and the dict the evaluators get (source_type is dropped)
VectorData(i) == [id |-> i, text |-> "text", source_type |-> 1]
ToDict(vec) == [id |-> vec.id, text |-> vec.text]

\* the store: ids 1..n in store order
VectorStore(n) == [i \in 1..n |-> VectorData(i)]

\* sources.vectors_info as the dict of line 159, vector_id -> score: scores
\* rising with the id, falling with it, tied in groups, known for even ids
\* only (some below 0), or not known at all
VectorsInfos(n) ==
    {[i \in 1..n |-> i], [i \in 1..n |-> n - i], [i \in 1..n |-> i % 3],
     [i \in {j \in 1..n : j % 2 = 0} |-> i - 6], [i \in {} |-> 0]}

\* sources.vectors_used (a list, modelled by the set of its ids): empty, single
\* ids, several ids, ids that are not in the store, the whole store
VectorsUsed(n) == {{}, {1}, {n}, {2, 5}, {2, 99}, {99}, 1..n}

\* dict.get(key, default)
GetScore(vectors_info, id) ==
    IF id \in DOMAIN vectors_info THEN vectors_info[id] ELSE 0

\* list[:k]
Take(q, k) == SubSeq(q, 1, IF Len(q) < k THEN Len(q) ELSE k)

\* [v for v in q if keep(v)], in the order of q
RECURSIVE Filter(_, _, _)
Filter(q, used, keep_used) ==
    IF q = <<>> THEN <<>>
    ELSE IF (Head(q).id \in used) = keep_used
    THEN <<Head(q)>> \o Filter(Tail(q), used, keep_used)
    ELSE Filter(Tail(q), used, keep_used)

\* place vec in a list sorted by falling score, behind every element whose
\* score is not lower (the sort is stable)
RECURSIVE Insert(_, _, _)
Insert(sorted, vec, vectors_info) ==
    IF sorted = <<>> THEN <<vec>>
    ELSE IF GetScore(vectors_info, Head(sorted).id) >= GetScore(vectors_info, vec.id)
    THEN <<Head(sorted)>> \o Insert(Tail(sorted), vec, vectors_info)
    ELSE <<vec>> \o sorted

\* line 162: list.sort(key=score, reverse=True)
RECURSIVE SortByScore(_, _)
SortByScore(q, vectors_info) ==
    IF q = <<>> THEN <<>>
    ELSE Insert(SortByScore(SubSeq(q, 1, Len(q) - 1), vectors_info),
                q[Len(q)], vectors_info)

\* mutant of Select: the cap is applied to used and not-used vectors together
SelectCapTotal(used_vectors, other_vectors) ==
    Take(used_vectors \o other_vectors, MaxOthers)

\* line 163
Select(used_vectors, other_vectors) ==
    used_vectors \o Take(other_vectors, MaxOthers)

\* lines 149-177; turn_id is not read
extract_context_for_turn(vectors_data, turn_id) ==
    LET all_vectors == vectors_data.vector_data
        vectors_used == vectors_data.vectors_used
        selected_vectors ==
            IF vectors_used # {}
            THEN Select(Filter(all_vectors, vectors_used, TRUE),
                        SortByScore(Filter(all_vectors, vectors_used, FALSE),
                                    vectors_data.vectors_info))
            ELSE Take(all_vectors, FallbackCount)
    IN  [k \in 1..Len(selected_vectors) |-> ToDict(selected_vectors[k])]

InitContext ==
    /\ \E n \in 0..MaxVectors :
         \E info \in VectorsInfos(n), used \in VectorsUsed(n), turn_id \in {1, 3} :
            input = [vector_data |-> VectorStore(n), vectors_info |-> info,
                     vectors_used |-> used, turn_id |-> turn_id]
    /\ output = None
    /\ config = None
    /\ lettucedetect_evaluator = None
    /\ calls = <<>>
    /\ last = NoEvaluation
    /\ SessionIdle

ExtractContext ==
    /\ pc = "idle"
    /\ output' = extract_context_for_turn(input, input.turn_id)
    /\ pc' = "returned"
    /\ UNCHANGED <<evalVars, calls, last, conversation, target_turn,
                   ai_responses, idx, results, invocations, input>>

NextContext == ExtractContext

SpecContext == InitContext /\ [][NextContext]_vars

\* the score the selection ranks a vector id by
ScoreOf(id) ==
    IF id \in DOMAIN input.vectors_info THEN input.vectors_info[id] ELSE 0

\* positions of the store whose vector is marked used / is not
UsedPositions ==
    {i \in 1..Len(input.vector_data) : input.vector_data[i].id \in input.vectors_used}
OtherPositions == (1..Len(input.vector_data)) \ UsedPositions

\* C20: with a used list, the result holds every stored vector marked used (in
\* store order), followed by not-used vectors in descending score order, at
\* most 10 of them and none scored lower than a not-used vector left out; the
\* result never exceeds used count + 10 and no used vector is displaced.
\* Without a used list the result is the first 15 vectors in store order (all
\* of them if fewer).
C20_ContextSelection ==
    pc = "returned" =>
        LET store == input.vector_data
            nUsed == Cardinality(UsedPositions)
            nOther == Cardinality(OtherPositions)
            tail == (nUsed + 1)..Len(output)
        IN  IF input.vectors_used # {}
            THEN /\ Len(output) = nUsed + (IF nOther < 10 THEN nOther ELSE 10)
                 /\ Len(output) <= nUsed + 10
                 /\ \A i \in UsedPositions :
                       \E k \in 1..nUsed : output[k].id = store[i].id
                 /\ \A j, k \in 1..nUsed : j < k => output[j].id < output[k].id
                 /\ \A k \in tail :
                       /\ output[k].id \notin input.vectors_used
                       /\ \E i \in OtherPositions : store[i].id = output[k].id
                 /\ \A j, k \in tail :
                       j < k => /\ output[j].id # output[k].id
                                /\ ScoreOf(output[j].id) >= ScoreOf(output[k].id)
                 /\ \A i \in OtherPositions :
                       (\A k \in tail : output[k].id # store[i].id)
                       => \A k \in tail : ScoreOf(store[i].id) <= ScoreOf(output[k].id)
            ELSE /\ Len(output) = (IF Len(store) < 15 THEN Len(store) ELSE 15)
                 /\ \A k \in 1..Len(output) :
                       output[k] = [id |-> store[k].id, text |-> store[k].text]

\* two of 17 stored vectors are used and 15 are not: the two used ones come
\* first, then the ten best scored of the others, best first
C20_Witness ==
    /\ pc = "returned"
    /\ Len(input.vector_data) = 17
    /\ input.vectors_used = {2, 5}
    /\ input.vectors_info = [i \in 1..17 |-> i]
    /\ Len(output) = 12
    /\ output[1].id = 2 /\ output[2].id = 5
    /\ output[3].id = 17 /\ output[12].id = 8

\* ---------------------------------------------------------------------------
\* JSONDataLoader._parse_json_with_cleanup (src/loaders/json_loader.py)

Quote == "\""
Newline == "\n"

\* \s of the trailing-comma pattern
RegexSpace == {" ", Newline}

\* str.split('\n')
RECURSIVE SplitLines(_, _)
SplitLines(content, line) ==
    IF content = <<>> THEN <<line>>
    ELSE IF Head(content) = Newline
    THEN <<line>> \o SplitLines(Tail(content), <<>>)
    ELSE SplitLines(Tail(content), Append(line, Head(content)))

\* '\n'.join(lines)
RECURSIVE JoinLines(_)
JoinLines(lines) ==
    IF lines = <<>> THEN <<>>
    ELSE IF Len(lines) = 1 THEN lines[1]
    ELSE lines[1] \o <<Newline>> \o JoinLines(Tail(lines))

\* lines 117-124: lines whose stripped text starts with // are dropped
RECURSIVE DropCommentLines(_)
DropCommentLines(lines) ==
    IF lines = <<>> THEN <<>>
    ELSE IF StartsWith(Strip(Head(lines)), <<"/", "/">>)
    THEN DropCommentLines(Tail(lines))
    ELSE <<Head(lines)>> \o DropCommentLines(Tail(lines))

\* length of the run of \s at the start of t
RECURSIVE SpaceRun(_)
SpaceRun(t) ==
    IF t # <<>> /\ Head(t) \in RegexSpace THEN 1 + SpaceRun(Tail(t)) ELSE 0

\* the pattern ,(\s*[}\]]) matches at the start of t
CommaMatches(t) ==
    /\ t # <<>> /\ Head(t) = ","
    /\ LET n == SpaceRun(Tail(t))
       IN  Len(t) >= n + 2 /\ t[n + 2] \in {"}", "]"}

\* line 127: re.sub(r',(\s*[}\]])', r'\1', content), wherever the match is
RECURSIVE DropTrailingCommas(_)
DropTrailingCommas(t) ==
    IF t = <<>> THEN <<>>
    ELSE IF CommaMatches(t)
    THEN LET n == SpaceRun(Tail(t))
         IN  SubSeq(t, 2, n + 2) \o DropTrailingCommas(SubSeq(t, n + 3, Len(t)))
    ELSE <<Head(t)>> \o DropTrailingCommas(Tail(t))

\* the tokens of a text: string literals with their contents, every other
\* character outside a string by itself, white space outside strings dropped;
\* a string left open ends in an "open" token
RECURSIVE Tokenize(_, _, _)
Tokenize(t, in_string, chars) ==
    IF t = <<>> THEN IF in_string THEN <<[sym |-> "open"]>> ELSE <<>>
    ELSE IF in_string
    THEN IF Head(t) = Quote
         THEN <<[str |-> chars]>> \o Tokenize(Tail(t), FALSE, <<>>)
         ELSE Tokenize(Tail(t), TRUE, Append(chars, Head(t)))
    ELSE IF Head(t) = Quote THEN Tokenize(Tail(t), TRUE, <<>>)
    ELSE IF Head(t) \in RegexSpace THEN Tokenize(Tail(t), FALSE, <<>>)
    ELSE <<[sym |-> Head(t)]>> \o Tokenize(Tail(t), FALSE, <<>>)

IsStr(tok) == "str" \in DOMAIN tok
IsSym(tok, c) == "sym" \in DOMAIN tok /\ tok.sym = c

\* json.loads on documents of the form {"key": [string, ...]}: the value, or
\* JSONDecodeError for any other token sequence
json_loads(t) ==
    LET toks == Tokenize(t, FALSE, <<>>)
        n == Len(toks)
        wellFormed ==
            /\ n >= 6
            /\ IsSym(toks[1], "{") /\ IsStr(toks[2]) /\ IsSym(toks[3], ":")
            /\ IsSym(toks[4], "[") /\ IsSym(toks[n - 1], "]") /\ IsSym(toks[n], "}")
            /\ (n = 6 \/ n % 2 = 1)
            /\ \A i \in 5..(n - 2) :
                  IF i % 2 = 1 THEN IsStr(toks[i]) ELSE IsSym(toks[i], ",")
    IN  IF wellFormed
        THEN [tag |-> "Parsed", key |-> toks[2].str,
              items |-> [i \in 1..((n - 5) \div 2) |-> toks[2 * i + 3].str]]
        ELSE RaisedError("JSONDecodeError")

\* lines 114-136 (the strict=False retry accepts control characters in
\* strings; the documents here hold none, so it fails as the first try does)
parse_json_with_cleanup(content) ==
    json_loads(DropTrailingCommas(JoinLines(DropCommentLines(
        SplitLines(content, <<>>)))))

\* contents of the string values: plain, a comma followed by ] or }, with
\* white space in between, and text starting with //
StringContents ==
    {<<"a">>, <<"a", ",", "]">>, <<",", " ", "}">>, <<"/", "/", "a">>}

RECURSIVE JoinItems(_)
JoinItems(items) ==
    IF items = <<>> THEN <<>>
    ELSE <<Quote>> \o Head(items) \o <<Quote>>
         \o (IF Len(items) > 1 THEN <<",">> ELSE <<>>) \o JoinItems(Tail(items))

\* the text of a file {"k": [items]}: with or without a leading // comment
\* line, a line break after [, a trailing comma before ]
Document(comment, break, items, trailing) ==
    (IF comment THEN <<"/", "/", "c", Newline>> ELSE <<>>)
    \o <<"{", Quote, "k", Quote, ":", "[">>
    \o (IF break THEN <<Newline>> ELSE <<>>)
    \o JoinItems(items)
    \o (IF trailing THEN <<",", " ">> ELSE <<>>)
    \o <<"]", "}">>

Documents ==
    {Document(c, b, items, t) :
        c \in BOOLEAN, b \in BOOLEAN, t \in BOOLEAN,
        items \in SeqsOfLen(StringContents, 1) \cup SeqsOfLen(StringContents, 2)}

InitCleanup ==
    /\ input \in Documents
    /\ output = None
    /\ config = None
    /\ lettucedetect_evaluator = None
    /\ calls = <<>>
    /\ last = NoEvaluation
    /\ SessionIdle

ParseWithCleanup ==
    /\ pc = "idle"
    /\ output' = parse_json_with_cleanup(input)
    /\ pc' = "returned"
    /\ UNCHANGED <<evalVars, calls, last, conversation, target_turn,
                   ai_responses, idx, results, invocations, input>>

SpecCleanup == InitCleanup /\ [][ParseWithCleanup]_vars

\* C21: for every valid JSON document without // comment lines and trailing
\* commas (one that direct parsing accepts), _parse_json_with_cleanup returns
\* exactly the value direct parsing returns, also when a string value holds a
\* comma followed by ] or } or text starting with //.
C21_CleanupIdentityOnClean ==
    (pc = "returned" /\ json_loads(input).tag = "Parsed") =>
        output = json_loads(input)

\* ---------------------------------------------------------------------------
\* The command line entry point: missing input files

\* lines 126-128: the except FileNotFoundError branch of main
FileNotFoundExit == [tag |-> "Exit", code |-> 1, branch |-> "FileNotFoundError"]

\* C22: a CLI run whose conversation file or context vectors file does not
\* exist ends with exit code 1 through the file-not-found branch, whatever the
\* other arguments are (mock or real provider).
C22_FileNotFoundExit ==
    (/\ pc = "exited"
     /\ ~(input.conversation_file_exists /\ input.context_vectors_file_exists))
    => output = FileNotFoundExit

\* ---------------------------------------------------------------------------
\* Transformer strategy: score, accuracy, content filter, severity

\* the score the breakpoints give a result
OnBreakpoints ==
    LET fa == output.factual_accuracy
    IN  /\ ~output.has_hallucination => output.score = 5
        /\ output.has_hallucination =>
              /\ RatLt(Rat(9, 10), fa) => output.score = 4
              /\ (RatLt(Rat(7, 10), fa) /\ RatLeq(fa, Rat(9, 10))) => output.score = 3
              /\ (RatLt(Rat(1, 2), fa) /\ RatLeq(fa, Rat(7, 10))) => output.score = 2
              /\ RatLeq(fa, Rat(1, 2)) => output.score = 1

\* C23 as stated: every result of the transformer strategy with no
\* hallucination flagged has score 5, and one with a hallucination flagged has
\* 4, 3, 2 or 1 by the breakpoints 0.9, 0.7, 0.5 of factual_accuracy.
C23_ScoreMapping == LettuceReturned => OnBreakpoints

\* C23 amended: every result of a completed span analysis follows the
\* breakpoints (5 with no hallucination flagged); a result returned without
\* analysis flags no hallucination and has score 1 when response, context or
\* context text is missing, and score 3 when the strategy failed internally.
C23_ScoreMappingWhenAnalysed ==
    LettuceReturned =>
        IF Analysed THEN OnBreakpoints
        ELSE /\ ~output.has_hallucination
             /\ output.score =
                  IF output.explanation[1] = "LettuceDetect evaluation error: "
                  THEN 3 ELSE 1

\* a flagged result between the two lower breakpoints got score 2
C23_Witness ==
    /\ Analysed
    /\ output.has_hallucination
    /\ RatLt(Rat(1, 2), output.factual_accuracy)
    /\ RatLeq(output.factual_accuracy, Rat(7, 10))
    /\ output.score = 2

\* C24: for every non-empty response and every list of predicted spans
\* (overlapping, repeated, ending beyond the response), factual_accuracy is
\* 1 - (sum of end - start over the retained spans) / (response length) and
\* lies in [0,1].
C24_FactualAccuracyInRange ==
    Analysed =>
        /\ output.factual_accuracy =
              RatAdd(FromInt(1), Rat(-SpanLengths(output.hallucinated_claims),
                                     input.ai_response_length))
        /\ RatLeq(Zero, output.factual_accuracy)
        /\ RatLeq(output.factual_accuracy, FromInt(1))

\* the characters of a text that are not punctuation marks, white space trimmed
RECURSIVE NonPunctuation(_)
NonPunctuation(t) ==
    IF t = <<>> THEN 0
    ELSE (IF \E k \in 1..Len(string_punctuation) : string_punctuation[k] = Head(t)
          THEN 0 ELSE 1) + NonPunctuation(Tail(t))

\* C25: every predicted span whose trimmed text has fewer than 5
\* non-punctuation characters is discarded whatever its confidence: no
\* retained claim has fewer than 5 of them.
C25_ContentFilter ==
    LettuceReturned =>
        \A k \in 1..Len(output.hallucinated_claims) :
            NonPunctuation(output.hallucinated_claims[k].claim) >= 5

\* C26: every retained span has category "fabricated"; its severity is high
\* iff confidence > 0.8, medium iff 0.5 < confidence <= 0.8, low iff
\* confidence <= 0.5; a retained span is never low and is medium only at
\* confidence exactly 0.8.
C26_Severity ==
    LettuceReturned =>
        \A k \in 1..Len(output.hallucinated_claims) :
            LET span == output.hallucinated_claims[k]
            IN  /\ span.category = "fabricated"
                /\ span.severity = "high" <=> RatLt(Rat(4, 5), span.confidence)
                /\ span.severity = "medium" <=>
                      (RatLt(Rat(1, 2), span.confidence)
                       /\ RatLeq(span.confidence, Rat(4, 5)))
                /\ span.severity = "low" <=> RatLeq(span.confidence, Rat(1, 2))
                /\ span.severity # "low"
                /\ span.severity = "medium" => span.confidence = Rat(4, 5)

\* a span at confidence 0.8 was retained as medium next to a high one
C26_Witness ==
    /\ Analysed
    /\ Len(output.hallucinated_claims) = 2
    /\ output.hallucinated_claims[1].confidence = Rat(4, 5)
    /\ output.hallucinated_claims[1].severity = "medium"
    /\ output.hallucinated_claims[2].severity = "high"

\* ---------------------------------------------------------------------------
\* The LLM-judge strategies for hallucination and ROUGE
\* (LLMEvaluator.evaluate_hallucination, UnifiedEvaluator._evaluate_rouge_with_llm)

\* a key the judge's JSON answer does not hold
Missing == [tag |-> "Missing"]

\* what the judge may answer for a ROUGE key: nothing, null, a value on the
\* scale or one beyond it
JudgeRougeValues == {Missing, None, Zero, Rat(1, 2), Rat(3, 2)}

\* what it may answer for factual_accuracy
JudgeAccuracies == {Rat(-1, 2), Zero, Rat(1, 2), FromInt(1), Rat(3, 2)}

\* the parsed answer of the hallucination prompt
HallucinationAnswers ==
    [kind : {"hallucination"}, hallucination_score : JudgeScores,
     has_hallucination : BOOLEAN, factual_accuracy : JudgeAccuracies]

\* a call of _evaluate_rouge_with_llm: what the judge does (the call raises,
\* the answer cannot be parsed, a parsed answer), and what the n-gram strategy
\* would meet: the response, the formatted context text, the scorer, the
\* configured sub-metric list and the F1 values
RougeJudgeCall(judge, answer, has_response, context_text, scorer, rouge_types, f) ==
    [kind |-> "rouge", judge |-> judge, answer |-> answer,
     has_response |-> has_response, context_text |-> context_text,
     scorer |-> scorer, rouge_types |-> rouge_types, fmeasure |-> f]

NoAnswer == [m \in {"rouge_1", "rouge_2", "rouge_l"} |-> Missing]

RougeJudgeCalls ==
    {RougeJudgeCall("parsed", a, TRUE, "text", "ok", DefaultRougeTypes, NoScores) :
        a \in [{"rouge_1", "rouge_2", "rouge_l"} -> JudgeRougeValues]}
    \cup {RougeJudgeCall(j, NoAnswer, r, c, sc, DefaultRougeTypes, NoScores) :
            j \in {"call_raises", "unparseable"}, r \in BOOLEAN,
            c \in {"", "text"}, sc \in {"ok", "ImportError"}}
    \cup {RougeJudgeCall("unparseable", NoAnswer, TRUE, "text", "ok", t, f) :
            t \in SUBSET TypeNames,
            f \in [{"rouge_1", "rouge_2", "rouge_l"} -> {Zero, Rat(1, 2)}]}

\* lines 111-121: the judge's fields are passed on as they are
evaluate_hallucination(result) ==
    [tag |-> "HallucinationResult", score |-> result.hallucination_score,
     has_hallucination |-> result.has_hallucination,
     factual_accuracy |-> result.factual_accuracy]

\* result.get(key, 0.0)
GetRouge(answer, key) == IF answer[key] = Missing THEN Zero ELSE answer[key]

\* lines 229-249: the result built from a parsed answer
FromJudge(answer) ==
    LET pick(m) == IF GetRouge(answer, m) # None
                   THEN <<GetRouge(answer, m)>> ELSE <<>>
        enabled_scores == pick("rouge_1") \o pick("rouge_2") \o pick("rouge_l")
    IN  [tag |-> "ROUGEResult",
         rouge_1 |-> GetRouge(answer, "rouge_1"),
         rouge_2 |-> GetRouge(answer, "rouge_2"),
         rouge_l |-> GetRouge(answer, "rouge_l"),
         average_score |-> IF enabled_scores # <<>>
                           THEN RatDiv(RatSum(enabled_scores),
                                       FromInt(Len(enabled_scores)))
                           ELSE Zero,
         explanation |-> "LLM-as-judge ROUGE evaluation"]

\* mutant of Fallback: a default result is made up
FallbackInvented(call) == EmptyROUGEResult("LLM-as-judge ROUGE evaluation")

\* lines 250-256: the n-gram strategy on the one item [{"text": context_text}]
Fallback(call) ==
    rouge_evaluate(RougeCall(call.has_response,
                             IF call.context_text = "" THEN "no_text" ELSE "text",
                             call.scorer, call.rouge_types, DefaultRougeTypes,
                             call.fmeasure))

\* lines 226-256
rouge_with_llm(call) ==
    IF call.judge = "parsed" THEN FromJudge(call.answer) ELSE Fallback(call)

InitJudge ==
    /\ input \in HallucinationAnswers \cup RougeJudgeCalls
    /\ output = None
    /\ config = None
    /\ lettucedetect_evaluator = None
    /\ calls = <<>>
    /\ last = NoEvaluation
    /\ SessionIdle

EvaluateHallucination ==
    /\ pc = "idle" /\ input.kind = "hallucination"
    /\ output' = evaluate_hallucination(input)
    /\ pc' = "returned"
    /\ UNCHANGED <<evalVars, calls, last, conversation, target_turn,
                   ai_responses, idx, results, invocations, input>>

EvaluateRougeWithLLM ==
    /\ pc = "idle" /\ input.kind = "rouge"
    /\ output' = rouge_with_llm(input)
    /\ pc' = "returned"
    /\ UNCHANGED <<evalVars, calls, last, conversation, target_turn,
                   ai_responses, idx, results, invocations, input>>

SpecJudge == InitJudge /\ [][EvaluateHallucination \/ EvaluateRougeWithLLM]_vars

\* C27: when the judge call of the LLM-judge ROUGE variant fails or its answer
\* cannot be parsed, the result is exactly what the n-gram strategy returns for
\* the same response, the single reference item holding the formatted context
\* text, and the configured sub-metric list; no default result is made up.
C27_RougeFallbackIsNgram ==
    (pc = "returned" /\ input.kind = "rouge" /\ input.judge # "parsed") =>
        output = rouge_evaluate(
                    [has_response |-> input.has_response,
                     context |-> IF input.context_text = "" THEN "no_text" ELSE "text",
                     scorer |-> input.scorer, rouge_types |-> input.rouge_types,
                     self_rouge_types |-> {"rouge-1", "rouge-2", "rouge-l"},
                     fmeasure |-> input.fmeasure])

\* the answer was unparseable, only rouge-1 is configured, and the result
\* carries the n-gram F1 of rouge-1 alone
C27_Witness ==
    /\ pc = "returned" /\ input.kind = "rouge"
    /\ input.judge = "unparseable"
    /\ input.rouge_types = {"rouge-1"}
    /\ input.fmeasure["rouge_1"] = Rat(1, 2)
    /\ output.rouge_1 = Rat(1, 2)
    /\ output.rouge_2 = None
    /\ output.average_score = Rat(1, 2)

\* C28: whatever parseable JSON the judge answers, the result of an LLM-judge
\* strategy lies on its scale: HallucinationResult.score in 1..5,
\* HallucinationResult.factual_accuracy in [0,1], and the average_score of the
\* LLM-judge ROUGE variant in [0,1].
C28_JudgeResultsOnScale ==
    pc = "returned" =>
        /\ input.kind = "hallucination" =>
              /\ output.score \in 1..5
              /\ RatLeq(Zero, output.factual_accuracy)
              /\ RatLeq(output.factual_accuracy, FromInt(1))
        /\ (input.kind = "rouge" /\ input.judge = "parsed") =>
              /\ RatLeq(Zero, output.average_score)
              /\ RatLeq(output.average_score, FromInt(1))

\* ---------------------------------------------------------------------------
\* The relevance family alone, and the transformer evaluator at dispatch

\* the weights of the enabled relevance-family metrics, summed
RelevanceFamilyWeight(cfg) ==
    RatAdd(IF cfg.response_relevance THEN cfg.response_relevance_weight ELSE Zero,
           IF cfg.response_completeness THEN cfg.response_completeness_weight ELSE Zero)

DispatchesToTransformer(cfg) ==
    cfg.hallucination /\ cfg.hallucination_method = "lettucedetect"

\* C30: whenever hallucination is enabled with hallucination_method =
\* "lettucedetect", the orchestrator holds a transformer evaluator, with any
\* configuration and with or without an injected one; an evaluation that gets
\* to the hallucination metric calls it and does not fail for its absence.
C30_TransformerPresentAtDispatch ==
    DispatchesToTransformer(config) =>
        /\ lettucedetect_evaluator = TRUE
        /\ (Called /\ input.relevance # Raised) =>
              /\ HasCall("LettuceDetectEvaluator.evaluate")
              /\ input.lettucedetect # None

\* an evaluation dispatched to the transformer strategy returned its result
C30_Witness ==
    /\ DispatchesToTransformer(config)
    /\ Called /\ Evaluated
    /\ HasCall("LettuceDetectEvaluator.evaluate")
    /\ last.result.hallucination = input.lettucedetect
    /\ last.result.hallucination # None

====
